---- MODULE Spec2Model ----
(***************************************************************************)
(* Virtual Dreams bot (src/vapor.py): the /vapor request handler           *)
(* vapor_command and the pipeline function vapor, run by a pool of worker  *)
(* threads over one shared cache directory.                                *)
(*                                                                         *)
(* Each run p is one invocation of vapor_command.  pc[p] is the position   *)
(* of the run in the code and frame[p] holds the locals of vapor_command   *)
(* and vapor.  The three file maps are the cache directory.  calls, sink,  *)
(* stats and escaped record what the run did to its collaborators: the     *)
(* video source, the chorus detector, the effect engine, the chat, the     *)
(* requests log and the worker thread.                                     *)
(***************************************************************************)
EXTENDS Integers, Sequences, FiniteSets, TLC

\* ---------------------------------------------------------------- bounds
\* Number of /vapor messages handled in one behaviour.
NumRuns == 2
\* Longest list of search results the video source returns.
MaxResults == 2

\* ------------------------------------------------------------- constants
MAX_DURATION == 420
\* Updater(token=BOT_TOKEN, workers=2): threads that run the handlers.
Workers == 2
\* title[:15]
KeyLen == 15
\* chorus_duration = 15 and the literal third argument of the detector call.
ChorusStart == 15
\* chorus_duration -= 5
ChorusStep == 5

Runs == 1..NumRuns

\* ------------------------------------------------------------------ titles
\* A title is a sequence of one-character strings.
AsciiLetters ==
  {"S", "y", "n", "t", "h", "w", "a", "v", "e", "D", "r", "m", "s",
   "O", "f", "i", "c", "l", "R", "x", "C"}
AsciiDigits == {"9"}
\* Word characters that are not ASCII: "e-acute" stands for the letter e with
\* an acute accent.
NonAsciiWord == {"e-acute"}
\* \W matches everything but letters, digits and the underscore.
IsWordChar(c) == c \in AsciiLetters \cup AsciiDigits \cup NonAsciiWord \cup {"_"}
IsAscii(c) == c \notin NonAsciiWord

\* re.sub(r'\W+', '', s)
RECURSIVE StripNonWord(_)
StripNonWord(s) ==
  IF s = << >> THEN << >>
  ELSE (IF IsWordChar(Head(s)) THEN << Head(s) >> ELSE << >>)
       \o StripNonWord(Tail(s))

\* s.encode('ascii', errors='ignore').decode()
RECURSIVE DropNonAscii(_)
DropNonAscii(s) ==
  IF s = << >> THEN << >>
  ELSE (IF IsAscii(Head(s)) THEN << Head(s) >> ELSE << >>)
       \o DropNonAscii(Tail(s))

Prefix(s, n) == SubSeq(s, 1, IF Len(s) < n THEN Len(s) ELSE n)

\* The non-ASCII characters are dropped before the first 15 are taken.
CleanupTitleAsciiFirst(t) == Prefix(DropNonAscii(StripNonWord(t)), KeyLen)

\* title = (re.sub(r'\W+', '', info['title']))[:15]
\* title = str((title.encode('ascii',errors='ignore')).decode())
CleanupTitle(t) == DropNonAscii(Prefix(StripNonWord(t), KeyLen))

TitleOfficial ==
  << "S","y","n","t","h","w","a","v","e"," ","D","r","e","a","m","s",
     " ","(","O","f","f","i","c","i","a","l",")" >>
TitleRemix ==
  << "S","y","n","t","h","w","a","v","e"," ","D","r","e","a","m","s",
     " ","R","e","m","i","x" >>
\* "Caf<e-acute>_9 Synthwave Dreams"
TitleCafe ==
  << "C","a","f","e-acute","_","9"," ","S","y","n","t","h","w","a","v","e",
     " ","D","r","e","a","m","s" >>
Titles == {TitleOfficial, TitleRemix, TitleCafe}
Keys == {CleanupTitle(t) : t \in Titles}

\* ------------------------------------------------------------------ videos
\* What extract_info returns for a video: info['duration'], info['title'].
Video(d, t) == [duration |-> d, title |-> t]
Videos ==
  { Video(4, TitleCafe), Video(5, TitleRemix), Video(12, TitleCafe),
    Video(200, TitleOfficial), Video(420, TitleOfficial),
    Video(421, TitleRemix) }
\* info = False
NoInfo == [duration |-> -1, title |-> << >>]

\* ------------------------------------------------------------------- files
NoExcerpt == [src |-> NoInfo, kind |-> "none", len |-> 0]
RawAbsent == [st |-> "absent", v |-> NoInfo]
RawPartial == [st |-> "partial", v |-> NoInfo]
RawFull(v) == [st |-> "full", v |-> v]
ExcerptAbsent == [st |-> "absent", x |-> NoExcerpt]
ExcerptPartial == [st |-> "partial", x |-> NoExcerpt]
ExcerptFull(src, kind, len) ==
  [st |-> "full", x |-> [src |-> src, kind |-> kind, len |-> len]]
VaporAbsent == [st |-> "absent", x |-> NoExcerpt]
VaporPartial == [st |-> "partial", x |-> NoExcerpt]
\* fx(infile, outfile): the output is a function of the excerpt alone.
VaporFull(excerpt) == [st |-> "full", x |-> excerpt]

\* ---------------------------------------------------------------- messages
\* request_text = update.message.text.replace('/vapor ','') of a message
\* "/vapor <text>": the length of <text> and whether it is a YouTube URL.
Query(n, u) == [len |-> n, url |-> u]
Queries == { Query(4, FALSE), Query(16, FALSE), Query(28, TRUE) }
NoQuery == [len |-> -1, url |-> FALSE]

\* request_id = update.message.message_id
MessageIds(p) == {p}
Ids == UNION { MessageIds(p) : p \in Runs }
\* message_id numbers the messages of one chat; chat_id (line 262) names the
\* chat and is no part of request_id.  A message from another chat carries a
\* number of its own chat's count, which may be that of an earlier message.
ChatMessageIds(p) == 1..p
\* The text of a message plays no part in the paths of the working files:
\* one song name and one link.
ChatQueries == { Query(16, FALSE), Query(28, TRUE) }

VARIABLES
  pc,          \* position of each run
  frame,       \* the locals of each run, by their names in the source
  rawFiles,    \* <request_id>.wav
  chorusFiles, \* <request_id>_chorus.wav
  vaporFiles,  \* <title>_vapor.wav
  other_bytes, \* bytes of the audio files of earlier sessions in cache/
  calls,       \* what each run asked of the external collaborators
  sink,        \* what each run sent to the chat
  stats,       \* the lines each run wrote to requests.log
  escaped      \* the exception that left each handler, "none" without one

files == << rawFiles, chorusFiles, vaporFiles, other_bytes >>
vars == << pc, frame, files, calls, sink, stats, escaped >>

\* The locals before the handler has set them, and after it has returned.
\* search_results holds the candidates the for loop has been through: the
\* list the search returned is fixed and read by nothing else, so its
\* elements are drawn when the loop reaches them.
NoFrame ==
  [request_id |-> 0, request_text |-> NoQuery, status |-> "none",
   search_results |-> << >>, info |-> NoInfo, chorus |-> FALSE,
   chorus_duration |-> 0, song |-> NoInfo]
\* source: calls of the search and of extract_info; cache and key: the
\* outcome of the cache lookup and the key looked up; download, effect:
\* calls of ydl.download and fx; detect: the target of each detector call;
\* send: calls of bot.send_audio.
NoCalls ==
  [source |-> 0, cache |-> "none", key |-> << >>, download |-> 0,
   detect |-> << >>, effect |-> 0, send |-> 0]
NoSink == [text |-> << >>, audio |-> << >>]

Init ==
  /\ pc = [p \in Runs |-> "idle"]
  /\ frame = [p \in Runs |-> NoFrame]
  /\ rawFiles = [i \in Ids |-> RawAbsent]
  /\ chorusFiles = [i \in Ids |-> ExcerptAbsent]
  /\ vaporFiles = [k \in Keys |-> VaporAbsent]
  /\ other_bytes = 0
  /\ calls = [p \in Runs |-> NoCalls]
  /\ sink = [p \in Runs |-> NoSink]
  /\ stats = [p \in Runs |-> << >>]
  /\ escaped = [p \in Runs |-> "none"]

\* ---------------------------------------------------- the handler's blocks
\* logger.error("[" + str(request_id) + "] " + e): e is an exception object,
\* and str + exception raises TypeError before the statement after it runs.
LoggerError == "TypeError"

\* The exception is kept in one place for all the handlers.
ExitAll(p, st, e, snk) ==
  /\ stats' = [stats EXCEPT ![p] =
       Append(@, [id |-> frame[p].request_id, text |-> frame[p].request_text,
                  status |-> st])]
  /\ escaped' = [q \in Runs |-> e]
  /\ sink' = [sink EXCEPT ![p] = snk]
  /\ pc' = [pc EXCEPT ![p] = "done"]
  /\ frame' = [frame EXCEPT ![p] = NoFrame]

\* finally (lines 272-276): the line of requests.log is written with the
\* status st; the exception e, if any, leaves the handler for the worker
\* thread; the locals are gone.  snk is what the run has sent to the chat.
Exit(p, st, e, snk) ==
  /\ stats' = [stats EXCEPT ![p] =
       Append(@, [id |-> frame[p].request_id, text |-> frame[p].request_text,
                  status |-> st])]
  /\ escaped' = [escaped EXCEPT ![p] = e]
  /\ sink' = [sink EXCEPT ![p] = snk]
  /\ pc' = [pc EXCEPT ![p] = "done"]
  /\ frame' = [frame EXCEPT ![p] = NoFrame]

\* vapor returns: the try block ends without an exception.
Return(p, snk) == Exit(p, frame[p].status, "none", snk)

\* An exception e leaves vapor (lines 265-276).  except ValueError as e:
\* logger.error(... + e) comes first, and only if it returns are
\* status = "failed" and bot.send_message(text=error_str) reached.  Any other
\* exception goes to the finally block directly.
Raise(p, e) ==
  IF e = "ValueError"
  THEN IF LoggerError = "none"
       THEN Exit(p, "failed", "none",
                 [sink[p] EXCEPT !.text = Append(@, "error")])
       ELSE Exit(p, frame[p].status, LoggerError, sink[p])
  ELSE Exit(p, frame[p].status, e, sink[p])

\* except Exception as e: logger.error(... + e); raise ValueError(...)
LoggedRaise(p) ==
  Raise(p, IF LoggerError = "none" THEN "ValueError" ELSE LoggerError)

\* The run goes on to position l with the locals f.
Goto(p, l, f) ==
  /\ pc' = [pc EXCEPT ![p] = l]
  /\ frame' = [frame EXCEPT ![p] = f]
  /\ UNCHANGED << stats, escaped >>

InFlight == Cardinality({p \in Runs : pc[p] \notin {"idle", "done"}})

\* -------------------------------------------------------------- dispatcher
\* A worker thread is free for the next /vapor message.  Runs are numbered
\* in the order their handlers start.
MayStart(p) ==
  /\ pc[p] = "idle"
  /\ \A q \in Runs : q < p => pc[q] # "idle"
  /\ InFlight < Workers

\* Lines 252-267, up to the call of vapor.
vapor_command(p) ==
  /\ MayStart(p)
  /\ \E id \in MessageIds(p), q \in Queries :
       Goto(p, "working",
            [frame[p] EXCEPT !.request_id = id, !.request_text = q,
                             !.status = "success"])
  /\ UNCHANGED << files, calls, sink >>

\* Lines 252-267 for a message from any chat the bot is a member of.
vapor_command_chats(p) ==
  /\ MayStart(p)
  /\ \E id \in ChatMessageIds(p), q \in ChatQueries :
       Goto(p, "working",
            [frame[p] EXCEPT !.request_id = id, !.request_text = q,
                             !.status = "success"])
  /\ UNCHANGED << files, calls, sink >>

\* query.lower().startswith(youtube_urls)
IsYoutubeUrl(q) == q.url

\* bot.send_message(chat_id=chat_id, text=working_str), then line 119.
SendWorking(p) ==
  /\ pc[p] = "working"
  /\ \/ /\ sink' = [sink EXCEPT ![p].text = Append(@, "working")]
        /\ Goto(p, IF IsYoutubeUrl(frame[p].request_text) THEN "url_info"
                   ELSE "search", frame[p])
     \/ LoggedRaise(p)
  /\ UNCHANGED << files, calls >>

\* ------------------------------------------------------------- resolution
\* info['duration'] < MAX_DURATION and info['duration'] >= 5
FitsSearch(v) == v.duration < MAX_DURATION /\ v.duration >= 5
\* info['duration'] < 5 or info['duration'] > MAX_DURATION
RejectsUrl(v) == v.duration < 5 \/ v.duration > MAX_DURATION

\* After the for loop (lines 143-144), with the locals f:
\* if (not info): raise ValueError('Could not find a video.')
AfterLoop(p, f) ==
  IF f.info = NoInfo THEN Raise(p, "ValueError")
  ELSE /\ Goto(p, "cache", f)
       /\ UNCHANGED sink

\* urllib.request.urlopen(...) and re.findall(...): the search (lines
\* 120-125).  The list it returns is empty or not.
Search(p) ==
  /\ pc[p] = "search"
  /\ calls' = [calls EXCEPT ![p].source = @ + 1]
  /\ \/ AfterLoop(p, [frame[p] EXCEPT !.info = NoInfo])
     \/ /\ MaxResults > 0
        /\ Goto(p, "loop", [frame[p] EXCEPT !.info = NoInfo])
        /\ UNCHANGED sink
     \/ Raise(p, "Error")
  /\ UNCHANGED files

\* One iteration of "for url in search_results" (lines 129-140) on the next
\* element url of the list and, when url is its last element, line 143.
LoopStep(p) ==
  /\ pc[p] = "loop"
  /\ calls' = [calls EXCEPT ![p].source = @ + 1]
  /\ \/ \E url \in Videos :
          LET f == [frame[p] EXCEPT !.info = url,
                                    !.search_results = Append(@, url)]
          IN  IF FitsSearch(url) THEN AfterLoop(p, f)
              ELSE \/ AfterLoop(p, f)
                   \/ /\ Len(f.search_results) < MaxResults
                      /\ Goto(p, "loop", f)
                      /\ UNCHANGED sink
     \/ LoggedRaise(p)
  /\ UNCHANGED files

\* The query is a link (lines 148-153).
UrlInfo(p) ==
  /\ pc[p] = "url_info"
  /\ calls' = [calls EXCEPT ![p].source = @ + 1]
  /\ \/ \E v \in Videos :
          IF RejectsUrl(v) THEN Raise(p, "ValueError")
          ELSE /\ Goto(p, "cache", [frame[p] EXCEPT !.info = v])
               /\ UNCHANGED sink
     \/ Raise(p, "Error")
  /\ UNCHANGED files

\* ------------------------------------------------------------------ cache
\* vapor_path = title + "_vapor.wav"
\* The cleaned-up title of each title a video can have.
KeyOf == [t \in Titles |-> CleanupTitle(t)]
vapor_path(i) == KeyOf[i.title]
\* os.remove and open find the file; Path(...).is_file()
IsFile(f) == f.st # "absent"

\* The lookup finds nothing: the name looked up is one no run writes.
CacheLookupWrongName(k) == FALSE

\* Path(vapor_path).is_file() with vapor_path = title + "_vapor.wav"
CacheLookup(k) == IsFile(vaporFiles[k])

\* The lookup hits and the run goes on to the download all the same.
CacheCheckNoReturn(p) ==
  /\ pc[p] = "cache"
  /\ LET k == vapor_path(frame[p].info)
         hit == CacheLookup(k)
     IN
     /\ calls' = [calls EXCEPT ![p].key = k,
                               ![p].cache = IF hit THEN "hit" ELSE "miss"]
     /\ Goto(p, "download", [frame[p] EXCEPT !.search_results = << >>])
  /\ UNCHANGED << files, sink >>

\* Lines 156-163: the title is cleaned up and the cache looked up.
\* search_results is not read again.
CacheCheck(p) ==
  /\ pc[p] = "cache"
  /\ LET k == vapor_path(frame[p].info)
         hit == CacheLookup(k)
     IN
     /\ calls' = [calls EXCEPT ![p].key = k,
                               ![p].cache = IF hit THEN "hit" ELSE "miss"]
     /\ Goto(p, IF hit THEN "send_cached" ELSE "download",
             [frame[p] EXCEPT !.search_results = << >>])
  /\ UNCHANGED << files, sink >>

\* Lines 164-169: send the cached file and return.
SendCached(p) ==
  /\ pc[p] = "send_cached"
  /\ calls' = [calls EXCEPT ![p].send = @ + 1]
  /\ \/ Return(p, [sink[p] EXCEPT !.audio =
                     Append(@, vaporFiles[vapor_path(frame[p].info)])])
     \/ LoggedRaise(p)
  /\ UNCHANGED files

\* --------------------------------------------------------------- download
\* The download returns without having written <request_id>.wav.
DownloadNoFile(p) ==
  /\ pc[p] = "download"
  /\ calls' = [calls EXCEPT ![p].download = @ + 1]
  /\ Goto(p, "detect", [frame[p] EXCEPT !.chorus = FALSE,
                                        !.chorus_duration = ChorusStart])
  /\ UNCHANGED << files, sink >>

\* ydl.download([url]) writes <request_id>.wav (lines 173-178); then lines
\* 182-183.  A failed download leaves no file or a part of one.
Download(p) ==
  /\ pc[p] = "download"
  /\ calls' = [calls EXCEPT ![p].download = @ + 1]
  /\ LET id == frame[p].request_id IN
     \/ /\ rawFiles' = [rawFiles EXCEPT ![id] = RawFull(frame[p].info)]
        /\ Goto(p, "detect", [frame[p] EXCEPT !.chorus = FALSE,
                                              !.chorus_duration = ChorusStart])
        /\ UNCHANGED sink
     \/ /\ \E f \in {rawFiles[id], RawPartial} :
             rawFiles' = [rawFiles EXCEPT ![id] = f]
        /\ LoggedRaise(p)
  /\ UNCHANGED << chorusFiles, vaporFiles, other_bytes >>

\* ----------------------------------------------------------------- chorus
\* The clip length the detector is asked for: the literal 15 of line 185.
DetectTarget(cd) == ChorusStart

\* The loop without "chorus_duration -= 5": once the detector has found no
\* chorus the condition of the while stays true and the call is repeated.
DetectNoDecrement(p) ==
  /\ pc[p] = "detect"
  /\ LET id == frame[p].request_id
         cd == frame[p].chorus_duration
         target == DetectTarget(cd)
         asked == calls[p].detect # << >>
     IN
     \/ /\ rawFiles[id].st = "full" /\ ~asked
        /\ calls' = [calls EXCEPT ![p].detect = << target >>]
        /\ chorusFiles' = [chorusFiles EXCEPT ![id] =
             ExcerptFull(rawFiles[id].v, "chorus", target)]
        /\ Goto(p, "effect", [frame[p] EXCEPT !.chorus = TRUE])
        /\ UNCHANGED sink
     \/ /\ calls' = [calls EXCEPT ![p].detect = << target >>]
        /\ Goto(p, "detect", frame[p])
        /\ UNCHANGED << chorusFiles, sink >>
     \/ /\ ~asked
        /\ calls' = [calls EXCEPT ![p].detect = << target >>]
        /\ Raise(p, "Error")
        /\ UNCHANGED chorusFiles
  /\ UNCHANGED << rawFiles, vaporFiles, other_bytes >>

\* One iteration of "while (not chorus and chorus_duration > 0)" (lines
\* 184-186).  The detector writes the excerpt and returns it, returns None,
\* or raises; the call is not inside a try.  It is a function of the file
\* and of the target: asked again about a file in which it found no chorus,
\* with the same target, it finds none again.  Without the file it raises.
Detect(p) ==
  /\ pc[p] = "detect"
  /\ LET id == frame[p].request_id
         cd == frame[p].chorus_duration
         target == DetectTarget(cd)
         asked == \E i \in 1..Len(calls[p].detect) : calls[p].detect[i] = target
     IN
     /\ calls' = [calls EXCEPT ![p].detect = Append(@, target)]
     /\ \/ /\ rawFiles[id].st = "full" /\ ~asked
           /\ chorusFiles' = [chorusFiles EXCEPT ![id] =
                ExcerptFull(rawFiles[id].v, "chorus", target)]
           /\ Goto(p, "effect", [frame[p] EXCEPT !.chorus = TRUE,
                                   !.chorus_duration = cd - ChorusStep])
           /\ UNCHANGED sink
        \/ /\ IsFile(rawFiles[id])
           /\ Goto(p, IF cd - ChorusStep > 0 THEN "detect" ELSE "fallback",
                   [frame[p] EXCEPT !.chorus_duration = cd - ChorusStep])
           /\ UNCHANGED << chorusFiles, sink >>
        \/ /\ ~asked \/ rawFiles[id].st # "full"
           /\ Raise(p, "Error")
           /\ UNCHANGED chorusFiles
  /\ UNCHANGED << rawFiles, vaporFiles, other_bytes >>

\* The loop with >= for >.
RECURSIVE ClipLenOffByOne(_, _)
ClipLenOffByOne(cd, d) ==
  IF cd >= d THEN ClipLenOffByOne(cd - ChorusStep, d) ELSE cd

\* while (chorus_duration > info['duration']): chorus_duration -= 5
RECURSIVE ClipLen(_, _)
ClipLen(cd, d) == IF cd > d THEN ClipLen(cd - ChorusStep, d) ELSE cd

\* Could not find chorus, using first segment (lines 188-209):
\* chorus_duration = 15; song = AudioSegment.from_wav(original_path); the
\* length of the clip; song[:seconds] is exported.  A failed export leaves
\* no file or a part of one.
Fallback(p) ==
  /\ pc[p] = "fallback"
  /\ LET id == frame[p].request_id
         len == ClipLen(ChorusStart, frame[p].info.duration)
     IN
     \/ /\ rawFiles[id].st = "full"
        /\ chorusFiles' = [chorusFiles EXCEPT ![id] =
             ExcerptFull(rawFiles[id].v, "clip", len)]
        /\ Goto(p, "effect", [frame[p] EXCEPT !.chorus_duration = len,
                                              !.song = rawFiles[id].v])
        /\ UNCHANGED sink
     \/ /\ \E f \in {chorusFiles[id], ExcerptPartial} :
             chorusFiles' = [chorusFiles EXCEPT ![id] = f]
        /\ LoggedRaise(p)
  /\ UNCHANGED << rawFiles, vaporFiles, other_bytes, calls >>

\* ----------------------------------------------------------------- effect
\* fx starts and the output file is not there until it ends.
EffectBeginNoFile(p) ==
  /\ pc[p] = "effect"
  /\ calls' = [calls EXCEPT ![p].effect = @ + 1]
  /\ Goto(p, "effect_run", frame[p])
  /\ UNCHANGED << files, sink >>

\* fx(infile, outfile) starts (lines 212-220): sox creates the output file,
\* or fails before it does.
EffectBegin(p) ==
  /\ pc[p] = "effect"
  /\ calls' = [calls EXCEPT ![p].effect = @ + 1]
  /\ \/ /\ vaporFiles' =
             [vaporFiles EXCEPT ![vapor_path(frame[p].info)] = VaporPartial]
        /\ Goto(p, "effect_run", frame[p])
        /\ UNCHANGED sink
     \/ /\ LoggedRaise(p)
        /\ UNCHANGED vaporFiles
  /\ UNCHANGED << rawFiles, chorusFiles, other_bytes >>

\* fx(infile, outfile) ends (lines 220-223): the output is complete, or sox
\* failed and what it wrote stays.
EffectEnd(p) ==
  /\ pc[p] = "effect_run"
  /\ LET id == frame[p].request_id IN
     \/ /\ chorusFiles[id].st = "full"
        /\ vaporFiles' = [vaporFiles EXCEPT ![vapor_path(frame[p].info)] =
             VaporFull(chorusFiles[id].x)]
        /\ Goto(p, "send", frame[p])
        /\ UNCHANGED sink
     \/ /\ LoggedRaise(p)
        /\ UNCHANGED vaporFiles
  /\ UNCHANGED << rawFiles, chorusFiles, other_bytes, calls >>

\* --------------------------------------------------------------- delivery
\* os.remove(original_path); os.remove(chorus_path) (lines 236-241), then
\* vapor returns.  The first missing file raises OSError, and its handler
\* logs with str + e.  snk is what the run has sent to the chat.
Cleanup(p, snk) ==
  LET id == frame[p].request_id IN
  IF ~IsFile(rawFiles[id])
  THEN /\ Exit(p, frame[p].status, LoggerError, snk)
       /\ UNCHANGED << rawFiles, chorusFiles >>
  ELSE /\ rawFiles' = [rawFiles EXCEPT ![id] = RawAbsent]
       /\ IF ~IsFile(chorusFiles[id])
          THEN /\ Exit(p, frame[p].status, LoggerError, snk)
               /\ UNCHANGED chorusFiles
          ELSE /\ chorusFiles' = [chorusFiles EXCEPT ![id] = ExcerptAbsent]
               /\ Return(p, snk)

\* A failed delivery removes the artifact it could not send.
SendInvalidates(p) ==
  /\ pc[p] = "send"
  /\ \/ /\ IsFile(vaporFiles[vapor_path(frame[p].info)])
        /\ Cleanup(p, [sink[p] EXCEPT !.audio =
                         Append(@, vaporFiles[vapor_path(frame[p].info)])])
        /\ UNCHANGED vaporFiles
     \/ /\ LoggedRaise(p)
        /\ vaporFiles' =
             [vaporFiles EXCEPT ![vapor_path(frame[p].info)] = VaporAbsent]
        /\ UNCHANGED << rawFiles, chorusFiles >>
  /\ calls' = [calls EXCEPT ![p].send = @ + 1]
  /\ UNCHANGED other_bytes

\* bot.send_audio(chat_id=chat_id, audio=open(vapor_path, 'rb')) (lines
\* 229-233) and, once the audio is sent, the cleanup.
Send(p) ==
  /\ pc[p] = "send"
  /\ \/ /\ IsFile(vaporFiles[vapor_path(frame[p].info)])
        /\ Cleanup(p, [sink[p] EXCEPT !.audio =
                         Append(@, vaporFiles[vapor_path(frame[p].info)])])
     \/ /\ LoggedRaise(p)
        /\ UNCHANGED << rawFiles, chorusFiles >>
  /\ calls' = [calls EXCEPT ![p].send = @ + 1]
  /\ UNCHANGED << vaporFiles, other_bytes >>

\* A step of the pipeline function vapor.
Step(p) ==
    \/ SendWorking(p)
    \/ Search(p)
    \/ LoopStep(p)
    \/ UrlInfo(p)
    \/ CacheCheck(p)
    \/ SendCached(p)
    \/ Download(p)
    \/ Detect(p)
    \/ Fallback(p)
    \/ EffectBegin(p)
    \/ EffectEnd(p)
    \/ Send(p)

\* The handlers run on the worker threads, in any interleaving.
Next == \E p \in Runs : vapor_command(p) \/ Step(p)

Spec == Init /\ [][Next]_vars

\* Each handler runs on a thread of the pool, the threads are scheduled and
\* every external call returns or raises: a run that has started takes its
\* next step.  Whether a message arrives is up to the users.
Fairness == \A p \in Runs : WF_vars(Step(p))

\* The requests arrive one after the other: a message arrives when the
\* handler of the one before it has ended.
NextSeq == \E p \in Runs : (InFlight = 0 /\ vapor_command(p)) \/ Step(p)

SpecSeq == Init /\ [][NextSeq]_vars

\* No step of a run waits for another run: the requests one after the
\* other, each thread scheduled.
SpecLive == Init /\ [][NextSeq]_vars /\ Fairness

\* The messages come from several chats.
NextChats == \E p \in Runs : vapor_command_chats(p) \/ Step(p)

SpecChats == Init /\ [][NextChats]_vars

\* cache/ is kept from one session to the next: the bot starts with the
\* audio files of earlier sessions in it.
InitQuota ==
  /\ pc = [p \in Runs |-> "idle"]
  /\ frame = [p \in Runs |-> NoFrame]
  /\ rawFiles = [i \in Ids |-> RawAbsent]
  /\ chorusFiles = [i \in Ids |-> ExcerptAbsent]
  /\ vaporFiles = [k \in Keys |-> VaporAbsent]
  /\ other_bytes \in {490000000, 520000000}
  /\ calls = [p \in Runs |-> NoCalls]
  /\ sink = [p \in Runs |-> NoSink]
  /\ stats = [p \in Runs |-> << >>]
  /\ escaped = [p \in Runs |-> "none"]

SpecQuota == InitQuota /\ [][NextSeq]_vars

\* ------------------------------------------------------- the directory
\* Bytes of a wav file of the given length: 'preferredcodec': 'wav' gives
\* 16-bit stereo PCM at 44.1 kHz.  A file cut short counts for nothing.
WavBytes(seconds) == seconds * 176400
RawBytes(f) == IF f.st = "full" THEN WavBytes(f.v.duration) ELSE 0
ExcerptBytes(f) == IF f.st = "full" THEN WavBytes(f.x.len) ELSE 0
\* .speed(0.63): the output is 1/0.63 times as long as the excerpt.
VaporBytes(f) == IF f.st = "full" THEN (WavBytes(f.x.len) * 100) \div 63 ELSE 0

RECURSIVE Sum(_, _)
Sum(g, S) ==
  IF S = {} THEN 0
  ELSE LET x == CHOOSE y \in S : TRUE IN g[x] + Sum(g, S \ {x})

\* The aggregate size of cache/.
DirBytes ==
  other_bytes
  + Sum([i \in Ids |-> RawBytes(rawFiles[i])], Ids)
  + Sum([i \in Ids |-> ExcerptBytes(chorusFiles[i])], Ids)
  + Sum([k \in Keys |-> VaporBytes(vaporFiles[k])], Keys)

\* No audio file is left in cache/.
NoAudio ==
  /\ other_bytes = 0
  /\ \A i \in Ids : ~IsFile(rawFiles[i]) /\ ~IsFile(chorusFiles[i])
  /\ \A k \in Keys : ~IsFile(vaporFiles[k])

\* ------------------------------------------------------------ vocabulary
TypeOK ==
  /\ pc \in [Runs -> {"idle", "working", "search", "loop", "url_info", "cache",
                      "send_cached", "download", "detect", "fallback",
                      "effect", "effect_run", "send", "done"}]
  /\ \A p \in Runs :
       /\ frame[p].request_text \in Queries \cup {NoQuery}
       /\ frame[p].info \in Videos \cup {NoInfo}
       /\ frame[p].chorus_duration \in 0..ChorusStart
       /\ Len(frame[p].search_results) <= MaxResults
       /\ calls[p].source \in 0..(MaxResults + 1)
       /\ Len(calls[p].detect) <= 3
       /\ calls[p].send \in 0..1
       /\ Len(stats[p]) <= 1
       /\ escaped[p] \in {"none", "ValueError", "TypeError", "Error"}

Started(p) == pc[p] # "idle"
Ended(p) == pc[p] = "done"
\* The request text of a run: a local until the handler ends, then in the
\* line it wrote to requests.log.
TextOf(p) == IF Ended(p) THEN stats[p][1].text ELSE frame[p].request_text
IdOf(p) == IF Ended(p) THEN stats[p][1].id ELSE frame[p].request_id
\* The run sent the audio to the chat.
Delivered(p) == Len(sink[p].audio) > 0
ErrorTexts(p) ==
  Cardinality({i \in 1..Len(sink[p].text) : sink[p].text[i] = "error"})
\* The spec's bound on the duration of a candidate (4.1): 5 <= d <= 420.
InRange(v) == 5 <= v.duration /\ v.duration <= MAX_DURATION
\* The positions of vapor after query resolution.
Resolved(p) ==
  pc[p] \in {"cache", "send_cached", "download", "detect", "fallback",
             "effect", "effect_run", "send"}

\* ------------------------------------------------------------------ claims

\* C1: a /vapor request whose query text has fewer than 5 characters is
\* rejected before the pipeline runs: the video source (search, metadata
\* fetch) is never invoked for it.
C1_ShortQueryRejected ==
  \A p \in Runs :
    Started(p) /\ TextOf(p).len < 5 => calls[p].source = 0 /\ ~Resolved(p)

\* C2: once a request has reached a terminal state, its raw audio file
\* <request_id>.wav and its excerpt file <request_id>_chorus.wav do not
\* exist, whether written whole or in part.
C2_TransientFilesRemoved ==
  \A p \in Runs :
    Ended(p) => ~IsFile(rawFiles[IdOf(p)]) /\ ~IsFile(chorusFiles[IdOf(p)])

\* The pipeline of the run got as far as query resolution.
Resolving(p) == calls[p].source > 0
\* The pipeline of the run failed: vapor raised, at whatever stage.
Failed(p) == Ended(p) /\ (escaped[p] # "none" \/ ~Delivered(p))

\* C3: a request whose pipeline failed at a stage (resolution, download,
\* excerpt, effect, delivery) got exactly one error text message; a request
\* that succeeded got exactly one audio payload.
C3_OneMessagePerOutcome ==
  \A p \in Runs :
    Ended(p) /\ Resolving(p) =>
      IF Failed(p) THEN ErrorTexts(p) = 1
      ELSE Len(sink[p].audio) = 1 /\ ErrorTexts(p) = 0

\* C4: every request writes exactly one outcome record, whose status is
\* "failed" if and only if the pipeline run ended in a failure ("success"
\* only when the audio was delivered).
C4_OutcomeRecord ==
  \A p \in Runs :
    Ended(p) /\ Resolving(p) =>
      /\ Len(stats[p]) = 1
      /\ stats[p][1].status \in {"success", "failed"}
      /\ stats[p][1].status = "failed" <=> Failed(p)

\* C5: query resolution never accepts a candidate whose duration is < 5 or
\* > 420, for a link and for a search alike: no later stage runs on one.
C5_NoOutOfRangeAccepted ==
  \A p \in Runs :
    (Resolved(p) => InRange(frame[p].info))
    /\ (calls[p].download > 0 /\ ~Ended(p) => InRange(frame[p].info))

\* C6: for a search, resolution skips only candidates outside 5 <= d <= 420
\* and returns the first one inside; when the list is exhausted the request
\* fails and nothing is downloaded.
C6_FirstFitOrFail ==
  \A p \in Runs :
    LET rs == frame[p].search_results IN
    /\ pc[p] = "loop" => \A i \in 1..Len(rs) : ~InRange(rs[i])
    /\ pc[p] = "cache" /\ ~IsYoutubeUrl(frame[p].request_text) =>
         /\ rs # << >>
         /\ frame[p].info = rs[Len(rs)]
         /\ InRange(frame[p].info)
         /\ \A i \in 1..(Len(rs) - 1) : ~InRange(rs[i])

\* C7: when the cache lookup finds an artifact under the key, the run goes
\* straight to the delivery of that file: it makes no call of the download,
\* of the chorus detector or of the effect engine.
C7_CacheHitShortCircuits ==
  \A p \in Runs :
    calls[p].cache = "hit" =>
      /\ pc[p] \in {"send_cached", "done"}
      /\ calls[p].download = 0
      /\ calls[p].detect = << >>
      /\ calls[p].effect = 0
      /\ Ended(p) /\ escaped[p] = "none" => Len(sink[p].audio) = 1

\* A run found the artifact another run had stored, sent it and ended.
C7_Witness ==
  \E p \in Runs :
    /\ Ended(p) /\ calls[p].cache = "hit" /\ escaped[p] = "none"
    /\ Len(sink[p].audio) = 1 /\ sink[p].audio[1].st = "full"

\* C8: of two requests with the same cache key handled one after the other,
\* the first one computing the artifact and succeeding, the first makes the
\* one download, the one chorus resolution and the one effect application,
\* the second makes none, and the second delivers the file the first did.
C8_ComputedOnce ==
  \A p1 \in Runs, p2 \in Runs :
    ( /\ p1 < p2 /\ Ended(p1) /\ Ended(p2)
      /\ calls[p1].cache = "miss" /\ Delivered(p1) /\ escaped[p1] = "none"
      /\ calls[p2].cache # "none" /\ calls[p2].key = calls[p1].key )
    => /\ calls[p1].download = 1 /\ calls[p1].effect = 1
       /\ Len(calls[p1].detect) \in 1..3
       /\ calls[p2].cache = "hit"
       /\ calls[p2].download = 0 /\ calls[p2].effect = 0
       /\ calls[p2].detect = << >>
       /\ Delivered(p2) => sink[p2].audio = sink[p1].audio

\* Two requests for two videos whose titles have the same key: the second
\* was sent the artifact of the first.
C8_Witness ==
  \E p1 \in Runs, p2 \in Runs :
    /\ p1 < p2 /\ Ended(p1) /\ Ended(p2)
    /\ calls[p1].cache = "miss" /\ Delivered(p1) /\ escaped[p1] = "none"
    /\ calls[p2].cache = "hit" /\ calls[p2].key = calls[p1].key
    /\ Delivered(p2) /\ escaped[p2] = "none"
    /\ sink[p2].audio = sink[p1].audio
    /\ sink[p1].audio[1].st = "full"

\* The largest multiple of 5 that is <= min(15, d).
LargestClip(d) ==
  LET m == IF d < 15 THEN d ELSE 15
  IN  CHOOSE n \in {0, 5, 10, 15} : n <= m /\ m < n + 5

\* The chorus detector failed on every attempt and the clip was exported.
Clipped(p) ==
  pc[p] \in {"effect", "effect_run", "send"} /\ ~frame[p].chorus

\* C9: when the detector has failed on every attempt and the candidate lasts
\* D >= 5 seconds, the excerpt is the first clipLen seconds of the raw audio,
\* clipLen the largest multiple of 5 that is <= min(15, D): 5, 10 or 15.
C9_ClipFallbackLength ==
  \A p \in Runs :
    Clipped(p) /\ frame[p].info.duration >= 5 =>
      /\ frame[p].chorus_duration = LargestClip(frame[p].info.duration)
      /\ frame[p].chorus_duration \in {5, 10, 15}
      /\ chorusFiles[frame[p].request_id] =
           ExcerptFull(frame[p].song, "clip", frame[p].chorus_duration)
      /\ frame[p].song = rawFiles[frame[p].request_id].v

\* A 12-second candidate is clipped to its first 10 seconds.
C9_Witness ==
  \E p \in Runs :
    /\ Clipped(p) /\ frame[p].info.duration = 12
    /\ Len(calls[p].detect) = 3
    /\ chorusFiles[frame[p].request_id].x.len = 10

\* The run ends in this step with no exception: a successful request.
Completes(p) == pc[p] # "done" /\ pc'[p] = "done" /\ escaped'[p] = "none"
\* The bytes in cache/ once the run has removed its two transient files.
BytesAfterCleanup(p) ==
  DirBytes - RawBytes(rawFiles[frame[p].request_id])
           - ExcerptBytes(chorusFiles[frame[p].request_id])

\* C10: after each successful request the quota is enforced: above
\* 500,000,000 bytes every audio artifact in the directory is deleted, and
\* at or below it none is.
C10_QuotaEnforced ==
  [][\A p \in Runs :
       Completes(p) =>
         IF BytesAfterCleanup(p) > 500000000
         THEN NoAudio'
         ELSE vaporFiles' = vaporFiles /\ other_bytes' = other_bytes]_vars

\* The run is between the start and the end of its handler.
Running(p) == pc[p] \notin {"idle", "done"}
\* The run reads <request_id>.wav next: the detector, or AudioSegment.from_wav.
ReadsRaw(p) == pc[p] \in {"detect", "fallback"}
\* The run reads <request_id>_chorus.wav next: fx(infile, outfile).
ReadsExcerpt(p) == pc[p] \in {"effect", "effect_run"}

\* C11: two runs in flight at the same time for different titles have
\* different request ids, hence different raw and excerpt paths; the raw
\* file a run reads is the one it downloaded and the excerpt it reads is the
\* one it extracted, no other run having overwritten or deleted them.
C11_DisjointWorkingFiles ==
  /\ \A p \in Runs, q \in Runs :
       ( /\ p # q /\ Running(p) /\ Running(q)
         /\ Resolved(p) /\ Resolved(q)
         /\ vapor_path(frame[p].info) # vapor_path(frame[q].info) )
       => frame[p].request_id # frame[q].request_id
  /\ \A p \in Runs :
       /\ ReadsRaw(p) => rawFiles[frame[p].request_id] = RawFull(frame[p].info)
       /\ ReadsExcerpt(p) =>
            /\ chorusFiles[frame[p].request_id].st = "full"
            /\ chorusFiles[frame[p].request_id].x.src = frame[p].info

\* The targets of the spec's TryDetect states, in their order.
DetectTargets == << ChorusStart, ChorusStart - ChorusStep,
                    ChorusStart - 2 * ChorusStep >>

\* C12: the chorus detector is called with the targets 15, then 10, then 5,
\* at most three times and never twice with the same target; the run stops
\* calling it at the first success and enters the clip fallback only after
\* the three calls have failed.
C12_DetectTargetsInOrder ==
  \A p \in Runs :
    LET d == calls[p].detect IN
    /\ Len(d) <= 3
    /\ \A i \in 1..Len(d) : d[i] = DetectTargets[i]
    /\ pc[p] = "fallback" => Len(d) = 3 /\ ~frame[p].chorus
    /\ frame[p].chorus => pc[p] \in {"effect", "effect_run", "send"}

\* C13: the file a cache lookup finds under a key is a finished artifact,
\* the complete output of an effect application that succeeded: the file a
\* run is about to send from the cache is complete, and so is every audio
\* payload a run has been sent.
C13_CacheEntryFinished ==
  \A p \in Runs :
    /\ pc[p] = "send_cached" => vaporFiles[calls[p].key].st = "full"
    /\ \A i \in 1..Len(sink[p].audio) : sink[p].audio[i].st = "full"

\* The compute stages: download, chorus resolution, effect application.
Computing(p) ==
  pc[p] \in {"download", "detect", "fallback", "effect", "effect_run"}

\* C14: two requests with one cache key can be in the compute stages at the
\* same time.  Whenever they are, both have missed the cache, both write
\* the one artifact path of the key, and once both effect applications have
\* started the file at that path is there, written by both.
C14_SameKeyComputedTwice ==
  \A p \in Runs, q \in Runs :
    p # q /\ Computing(p) /\ Computing(q) /\ calls[p].key = calls[q].key =>
      /\ calls[p].cache = "miss" /\ calls[q].cache = "miss"
      /\ vapor_path(frame[p].info) = calls[p].key
      /\ vapor_path(frame[q].info) = calls[p].key
      /\ pc[p] = "effect_run" /\ pc[q] = "effect_run" =>
           IsFile(vaporFiles[calls[p].key])

\* Two runs with different request ids are both inside fx, writing the
\* artifact of the same key, each having made its own download.
C14_Witness ==
  \E p \in Runs, q \in Runs :
    /\ p # q /\ pc[p] = "effect_run" /\ pc[q] = "effect_run"
    /\ frame[p].request_id # frame[q].request_id
    /\ calls[p].key = calls[q].key
    /\ calls[p].cache = "miss" /\ calls[q].cache = "miss"
    /\ calls[p].download = 1 /\ calls[q].download = 1
    /\ calls[p].effect = 1 /\ calls[q].effect = 1

StageFails(p) ==
  /\ pc[p] \in {"search", "loop", "url_info", "download", "detect",
                 "fallback", "effect", "effect_run"}
  /\ pc'[p] = "done"

\* The step leaves run q and its two working files as they were.
Untouched(q) ==
  /\ pc'[q] = pc[q] /\ frame'[q] = frame[q] /\ calls'[q] = calls[q]
  /\ sink'[q] = sink[q] /\ stats'[q] = stats[q] /\ escaped'[q] = escaped[q]
  /\ Running(q) =>
       /\ rawFiles'[frame[q].request_id] = rawFiles[frame[q].request_id]
       /\ chorusFiles'[frame[q].request_id] = chorusFiles[frame[q].request_id]

Delivers(p) == pc[p] \in {"send", "send_cached"} /\ pc'[p] = "done"

\* C17: a request attempts its delivery at most once; the delivery step,
\* failed or not, and the cleanup with it leave the artifact at the key's
\* path as it was; once a request has attempted its delivery the artifact
\* stays in place, and every later lookup of that key hits the cache.
C17_DeliveryOnceArtifactKept ==
  [][\A p \in Runs :
       /\ calls'[p].send <= 1
       /\ Delivers(p) =>
            /\ calls[p].send = 0 /\ calls'[p].send = 1
            /\ vaporFiles' = vaporFiles
       /\ calls[p].send = 1 =>
            /\ IsFile(vaporFiles'[calls[p].key])
            /\ \A q \in Runs :
                 ( /\ pc[q] = "cache" /\ pc'[q] # "cache"
                   /\ calls'[q].key = calls[p].key )
                 => calls'[q].cache = "hit"
    ]_vars

\* The delivery of a computed artifact failed, and another request for the
\* same key found the artifact in the cache and was sent it.
C17_Witness ==
  \E p \in Runs, q \in Runs :
    /\ p # q /\ Ended(p) /\ escaped[p] # "none"
    /\ calls[p].cache = "miss" /\ calls[p].effect = 1
    /\ calls[p].send = 1 /\ ~Delivered(p)
    /\ Ended(q) /\ calls[q].cache = "hit" /\ calls[q].key = calls[p].key
    /\ Delivered(q) /\ sink[q].audio[1].st = "full"
    /\ vaporFiles[calls[p].key].st = "full"

\* A letter or a digit, ASCII or not.
IsAlnum(c) == c \in AsciiLetters \cup AsciiDigits \cup NonAsciiWord
IsAsciiAlnum(c) == c \in AsciiLetters \cup AsciiDigits
\* The key as the spec derives it: strip the non-alphanumeric characters,
\* keep the first 15, drop the non-ASCII ones.
AlnumKey(t) == SelectSeq(Prefix(SelectSeq(t, IsAlnum), 15), IsAscii)
\* The same with the underscore kept by the first step.
WordKey(t) == SelectSeq(Prefix(SelectSeq(t, IsWordChar), 15), IsAscii)
\* The run has looked up the cache and still holds the title.
HasKey(p) == calls[p].cache # "none" /\ ~Ended(p)
SynthwaveDreams ==
  << "S","y","n","t","h","w","a","v","e","D","r","e","a","m","s" >>

\* C18 as stated: the key is the title with its non-alphanumeric characters
\* stripped, cut to 15 characters, its non-ASCII characters dropped; it
\* holds ASCII letters and digits only and at most 15 of them; the title
\* "Synthwave Dreams (Official)" gives "SynthwaveDreams".
C18_KeyAlphanumeric ==
  \A p \in Runs :
    HasKey(p) =>
      LET k == calls[p].key
          t == frame[p].info.title
      IN
      /\ k = AlnumKey(t)
      /\ Len(k) <= 15
      /\ \A i \in 1..Len(k) : IsAsciiAlnum(k[i])
      /\ t = TitleOfficial => k = SynthwaveDreams

\* C18 with the underscore: the key is the title with every character but
\* letters, digits and the underscore stripped, cut to 15 characters, its
\* non-ASCII characters dropped; it holds ASCII letters, digits and
\* underscores only and at most 15 of them; two runs with one title have
\* one key; "Synthwave Dreams (Official)" gives "SynthwaveDreams".
C18_KeyWordChars ==
  \A p \in Runs :
    HasKey(p) =>
      LET k == calls[p].key
          t == frame[p].info.title
      IN
      /\ k = WordKey(t)
      /\ Len(k) <= 15
      /\ \A i \in 1..Len(k) : IsAsciiAlnum(k[i]) \/ k[i] = "_"
      /\ t = TitleOfficial => k = SynthwaveDreams
      /\ \A q \in Runs :
           HasKey(q) /\ frame[q].info.title = t => calls[q].key = k

\* The key of "Caf<e-acute>_9 Synthwave Dreams": the underscore is kept, the
\* accented letter is among the first 15 and dropped after the cut, which
\* leaves 14 characters.
C18_Witness ==
  \E p \in Runs :
    /\ HasKey(p) /\ frame[p].info.title = TitleCafe
    /\ calls[p].key =
         << "C","a","f","_","9","S","y","n","t","h","w","a","v","e" >>

\* C19: every /vapor request that has started reaches the end of its
\* handler and has written its one line of requests.log: the search loop,
\* the detector loop and the clip-length loop all come to an end.
C19_RequestsTerminate ==
  \A p \in Runs : Started(p) ~> (Ended(p) /\ Len(stats[p]) = 1)

\* Two requests have ended, one of them after three detector calls and the
\* clip-length loop on a candidate of 4 seconds, which leaves a clip of 0.
C19_Witness ==
  /\ \A p \in Runs : Ended(p) /\ Len(stats[p]) = 1
  /\ \E p \in Runs :
       /\ Len(calls[p].detect) = 3 /\ calls[p].effect = 1
       /\ Delivered(p) /\ sink[p].audio[1].x.kind = "clip"
       /\ sink[p].audio[1].x.len = 0

====
